---- MODULE Spec2Model ----
(***************************************************************************)
(* State-machine model of DelaunayGeometry (openpnm/materials/             *)
(* _voronoi_fibers.py): the construction pass of the fibrous-material      *)
(* geometry.  Lengths are integers in a fixed physical unit; a voxel index *)
(* is an integer; a Euclidean distance is carried as its square.           *)
(***************************************************************************)
EXTENDS Integers, Sequences, FiniteSets, TLC

\* ------------------------------------------------------------------------
\* Arithmetic helpers (numpy semantics on exact numbers)
\* ------------------------------------------------------------------------

SetMin(S) == CHOOSE m \in S : \A n \in S : m <= n

SetMax(S) == CHOOSE m \in S : \A n \in S : m >= n

\* floor(n / d) and ceil(n / d) for d > 0
FloorDiv(n, d) == IF n >= 0 THEN n \div d ELSE -(((-n) + d - 1) \div d)

CeilDiv(n, d) == -FloorDiv(-n, d)

\* np.around(n / d, 0).astype(int) for d > 0: round half to even
RoundHalfEven(n, d) ==
    LET q == FloorDiv(n, d)
        r == n - q * d
    IN  IF 2 * r < d THEN q
        ELSE IF 2 * r > d THEN q + 1
        ELSE IF q % 2 = 0 THEN q ELSE q + 1

Dist2(u, v) ==
    (u[1] - v[1]) * (u[1] - v[1]) + (u[2] - v[2]) * (u[2] - v[2])
    + (u[3] - v[3]) * (u[3] - v[3])

\* ------------------------------------------------------------------------
\* Inputs: what the tessellation hands to the geometry
\* ------------------------------------------------------------------------

Box(x0, x1, y0, y1, z0, z1) ==
    {<<x, y, z>> : x \in {x0, x1}, y \in {y0, y1}, z \in {z0, z1}}

Prism(poly, z0, z1) == {<<p[1], p[2], z>> : p \in poly, z \in {z0, z1}}

\* the tessellations a geometry is constructed on
Networks ==
    {
    \* Two cuboid pores sharing the face x = 20; one rectangular throat facet.
    [name |-> "TwoBoxes",
     resolution |-> 10,
     pore_vertices |-> <<Box(0, 20, 0, 20, 0, 10), Box(20, 40, 0, 20, 0, 10)>>,
     throat_vertices |-> << <<<<20, 0, 0>>, <<20, 20, 0>>, <<20, 20, 10>>, <<20, 0, 10>>>> >>],
    \* Four prisms tiling the box [0,30] x [0,30] x [0,10]: a pentagon and three
    \* slivers cut off its far corner by planes x + y = 35, 49, 57.
    [name |-> "Strips",
     resolution |-> 10,
     pore_vertices |->
        <<Prism({<<0, 0>>, <<30, 0>>, <<30, 5>>, <<5, 30>>, <<0, 30>>}, 0, 10),
          Prism({<<30, 5>>, <<5, 30>>, <<30, 19>>, <<19, 30>>}, 0, 10),
          Prism({<<30, 19>>, <<19, 30>>, <<30, 27>>, <<27, 30>>}, 0, 10),
          Prism({<<30, 27>>, <<27, 30>>, <<30, 30>>}, 0, 10)>>,
     throat_vertices |-> << <<<<0, 0, 0>>, <<30, 0, 0>>, <<30, 5, 0>>, <<5, 30, 0>>, <<0, 30, 0>>>> >>],
    \* One cubic pore of side 40 with a square throat facet in each of the
    \* planes x = 0, y = 0 and z = 0.
    [name |-> "Cube",
     resolution |-> 10,
     pore_vertices |-> <<Box(0, 40, 0, 40, 0, 40)>>,
     throat_vertices |->
        << <<<<0, 0, 0>>, <<0, 40, 0>>, <<0, 40, 40>>, <<0, 0, 40>>>>,
           <<<<0, 0, 0>>, <<40, 0, 0>>, <<40, 0, 40>>, <<0, 0, 40>>>>,
           <<<<0, 0, 0>>, <<40, 0, 0>>, <<40, 40, 0>>, <<0, 40, 0>>>> >>],
    \* A pore whose four vertices are coplanar, beside a cuboid pore.
    [name |-> "Degenerate",
     resolution |-> 10,
     pore_vertices |-> <<{<<0, 0, 0>>, <<20, 0, 0>>, <<20, 20, 0>>, <<0, 20, 0>>},
                         Box(0, 20, 0, 20, 0, 10)>>,
     throat_vertices |-> << <<<<0, 0, 0>>, <<20, 0, 0>>, <<20, 20, 0>>, <<0, 20, 0>>>> >>],
    \* One cuboid pore whose least vertex is (4, 4, 0), less than half a voxel
    \* off the origin; its floor is the throat facet, a square of side 16.
    [name |-> "Offset",
     resolution |-> 10,
     pore_vertices |-> <<Box(4, 20, 4, 20, 0, 10)>>,
     throat_vertices |-> << <<<<4, 4, 0>>, <<20, 4, 0>>, <<20, 20, 0>>, <<4, 20, 0>>>> >>],
    \* One cuboid pore at the origin; its floor is the throat facet, a square of
    \* side 20 in the plane z = 0.
    [name |-> "Floor",
     resolution |-> 10,
     pore_vertices |-> <<Box(0, 20, 0, 20, 0, 10)>>,
     throat_vertices |-> << <<<<0, 0, 0>>, <<20, 0, 0>>, <<20, 20, 0>>, <<0, 20, 0>>>> >>],
    \* One prism over a thin triangle; the triangle, in the plane z = 0, is the
    \* throat facet.
    [name |-> "Wedge",
     resolution |-> 10,
     pore_vertices |-> <<Prism({<<0, 0>>, <<5, 10>>, <<30, 15>>}, 0, 10)>>,
     throat_vertices |-> << <<<<0, 0, 0>>, <<5, 10, 0>>, <<30, 15, 0>>>> >>]
    }

\* One cuboid pore 1060 long on one axis, 107 voxels at resolution 10, more
\* than the chunk edge of the fallback path; the throat facet is its end face.
LongNetworks ==
    {
    [name |-> "LongX",
     resolution |-> 10,
     pore_vertices |-> <<Box(0, 1060, 0, 10, 0, 10)>>,
     throat_vertices |-> << <<<<0, 0, 0>>, <<0, 10, 0>>, <<0, 10, 10>>, <<0, 0, 10>>>> >>],
    [name |-> "LongY",
     resolution |-> 10,
     pore_vertices |-> <<Box(0, 10, 0, 1060, 0, 10)>>,
     throat_vertices |-> << <<<<0, 0, 0>>, <<10, 0, 0>>, <<10, 0, 10>>, <<0, 0, 10>>>> >>],
    [name |-> "LongZ",
     resolution |-> 10,
     pore_vertices |-> <<Box(0, 10, 0, 10, 0, 1060)>>,
     throat_vertices |-> << <<<<0, 0, 0>>, <<10, 0, 0>>, <<10, 10, 0>>, <<0, 10, 0>>>> >>]
    }

\* fiber radii offered to a run, in physical units: 5 * k, k = 1 .. MaxRadSteps
MaxRadSteps == 3

\* in_hull_volume is public: the number of times it is run on one geometry,
\* the constructor's call included, is at most MaxCalls
MaxCalls == 3

FiberRads == {5 * k : k \in 1 .. MaxRadSteps}

\* ------------------------------------------------------------------------
\* _bresenham: sample points along the edges of every throat facet
\* ------------------------------------------------------------------------

RECURSIVE SumSeq(_)
SumSeq(s) == IF s = <<>> THEN 0 ELSE Head(s) + SumSeq(Tail(s))

\* Len^2 * variance of one coordinate of the facet (np.std compares alike)
Spread(face, axis) ==
    LET c == [i \in 1 .. Len(face) |-> face[i][axis]]
    IN  Len(face) * SumSeq([i \in 1 .. Len(face) |-> c[i] * c[i]])
        - SumSeq(c) * SumSeq(c)

\* the two axes kept after dropping the axis of smallest spread
KeptAxes(face) ==
    IF Spread(face, 1) < Spread(face, 2) /\ Spread(face, 1) < Spread(face, 3)
    THEN <<2, 3>>
    ELSE IF Spread(face, 2) < Spread(face, 1) /\ Spread(face, 2) < Spread(face, 3)
    THEN <<1, 3>>
    ELSE <<1, 2>>

Cross2(o, a, b) == (a[1] - o[1]) * (b[2] - o[2]) - (a[2] - o[2]) * (b[1] - o[1])

Len2D(a, b) == (a[1] - b[1]) * (a[1] - b[1]) + (a[2] - b[2]) * (a[2] - b[2])

\* scipy ConvexHull(points2d).vertices: the extreme points in
\* counterclockwise order.  The walk starts at the lowest point; the sampled
\* point set does not depend on the starting vertex.
HullNext(P, i) ==
    CHOOSE j \in DOMAIN P :
        /\ P[j] # P[i]
        /\ \A k \in DOMAIN P :
              \/ Cross2(P[i], P[j], P[k]) > 0
              \/ /\ Cross2(P[i], P[j], P[k]) = 0
                 /\ Len2D(P[i], P[k]) <= Len2D(P[i], P[j])

RECURSIVE HullWalk(_, _, _, _)
HullWalk(P, start, cur, acc) ==
    LET nxt == HullNext(P, cur)
    IN  IF P[nxt] = P[start] \/ Len(acc) >= Len(P) THEN acc
        ELSE HullWalk(P, start, nxt, Append(acc, nxt))

ConvexHullVertices(P) ==
    LET start ==
            CHOOSE i \in DOMAIN P :
                \A k \in DOMAIN P :
                    \/ P[i][2] < P[k][2]
                    \/ P[i][2] = P[k][2] /\ P[i][1] < P[k][1]
                    \/ P[i] = P[k] /\ i <= k
    IN  HullWalk(P, start, start, <<start>>)

Project2D(face, axes) == [i \in 1 .. Len(face) |-> <<face[i][axes[1]], face[i][axes[2]]>>]

\* np.ceil(vec_length / dx) with dx = vox_len / 2
RECURSIVE IncrementsFrom(_, _, _)
IncrementsFrom(len2, vox_len, n) ==
    IF n * n * vox_len * vox_len >= 4 * len2 THEN n
    ELSE IncrementsFrom(len2, vox_len, n + 1)

\* A sample point is the rational vector num / den.
Sum3(p) == p[1] + p[2] + p[3]

\* the inner loop over np.linspace(0, 1, increments): step k of n, the last
\* appended point being old
RECURSIVE EdgeWalk(_, _, _, _, _, _)
EdgeWalk(a, vec, n, k, old, acc) ==
    IF k >= n THEN acc
    ELSE LET den == IF n > 1 THEN n - 1 ELSE 1
             new == [num |-> <<a[1] * den + vec[1] * k, a[2] * den + vec[2] * k,
                               a[3] * den + vec[3] * k>>,
                     den |-> den]
         IN  IF Sum3(new.num) * old.den # Sum3(old.num) * new.den
             THEN EdgeWalk(a, vec, n, k + 1, new, acc \cup {new})
             ELSE EdgeWalk(a, vec, n, k + 1, old, acc)

EdgePoints(a, b, vox_len) ==
    LET vec == <<b[1] - a[1], b[2] - a[2], b[3] - a[3]>>
    IN  EdgeWalk(a, vec, IncrementsFrom(Dist2(a, b), vox_len, 0), 0,
                 [num |-> <<-1, -1, -1>>, den |-> 1], {})

\* the sample points of one facet: every edge of its projected hull
FacePoints(face, vox_len) ==
    LET hv == ConvexHullVertices(Project2D(face, KeptAxes(face)))
        m == Len(hv)
        prev(i) == IF i = 1 THEN m ELSE i - 1
    IN  UNION {EdgePoints(face[hv[prev(i)]], face[hv[i]], vox_len) : i \in 1 .. m}

bresenham(faces, vox_len) == UNION {FacePoints(faces[t], vox_len) : t \in DOMAIN faces}

\* line_ints = np.around(line_points / vox_len, 0).astype(int)
LineInts(points, vox_len) ==
    {<<RoundHalfEven(p.num[1], p.den * vox_len),
       RoundHalfEven(p.num[2], p.den * vox_len),
       RoundHalfEven(p.num[3], p.den * vox_len)>> : p \in points}

\* ------------------------------------------------------------------------
\* State
\* ------------------------------------------------------------------------

VARIABLES
    pc,               \* position in DelaunayGeometry.__init__
    calls,            \* runs of in_hull_volume started on this geometry
    err,              \* the exception that ended the pass, or "none"
    log,              \* messages handed to the logger
    pore_vertices,    \* self["pore.vertices"]: pore -> set of hull vertices
    throat_vertices,  \* self["throat.vertices"]: throat -> facet vertices
    resolution,       \* network.resolution
    fiber_rad,        \* network.fiber_rad
    bound,            \* local arrays of _get_fiber_image that are bound
    shape,            \* <<lx, ly, lz>>
    rad_vox,          \* the local fiber_rad of _get_fiber_image, in voxels
    chunk_len,
    cgrid,            \* <<cx, cy, cz>>
    cnum,
    pore_space,
    fiber_space,
    dt,
    fiber_image,      \* self._fiber_image
    dt_image,         \* self._dt_image
    Ps,               \* the pores in_hull_volume voxelizes, in loop order
    hull_i,           \* pores of Ps already handed to inhull
    hull_image,       \* self._hull_image
    pore_volume,      \* self["pore.volume"]
    throat_i,         \* throats already analysed by _throat_props
    props,            \* the local result arrays of _throat_props, per throat
    throat_props,     \* the throat attributes published by _throat_props
    throat_centroid,  \* self["throat.centroid"]
    pore_centroid     \* self["pore.centroid"]

VARIABLES
    pore_indiameter,  \* self["pore.indiameter"]
    pore_incenter     \* self["pore.incenter"]

indiamVars == <<pore_indiameter, pore_incenter>>

VARIABLES
    network,          \* the network arrays _throat_c2c reads
    throat_c2c,       \* self["throat.c2c"]
    conduit_lengths   \* self["throat.conduit_lengths.*"], per throat

VARIABLES
    target,           \* what largest_sphere reads: coords, conns, pores,
                      \* the fixed diameters if any, and the argument iters
    iters,            \* the local iters of largest_sphere
    D,                \* pore -> diameter, as a numerator over D_den, or inf
    D_is_stored,      \* whether D is the array the network stores, not a copy
    D_den,            \* the common denominator of D, a power of two
    diameters         \* the array largest_sphere returns

VARIABLES
    len_a,            \* inhull: len(a), the number of simplices of the hull
    outside,          \* the plane indices whose test one cell of dom fails
    plane_index,      \* the planes the loop of inhull has passed
    dom               \* inhull: the uint8 entry of that cell of dom

inputVars == <<pore_vertices, resolution, fiber_rad>>

fiberVars == <<bound, shape, rad_vox, chunk_len, cgrid, cnum, pore_space,
               fiber_space, dt, fiber_image, dt_image>>

hullVars == <<Ps, hull_i, hull_image, pore_volume>>

throatVars == <<throat_i, props, throat_props, throat_centroid, pore_centroid>>

\* the state the functions checked on their own keep beside the geometry
sideVars == <<network, throat_c2c, conduit_lengths, target, iters, D, D_is_stored, D_den,
              diameters,
              len_a, outside, plane_index, dom>>

vars == <<pc, calls, err, log, inputVars, throat_vertices, fiberVars, hullVars, throatVars,
          indiamVars, sideVars>>

\* a zero-based numpy array over pores or throats
Pores == 0 .. Len(pore_vertices) - 1

Unset == <<>>

InitFrom(Nets) ==
    /\ \E net \in Nets :
          /\ pore_vertices = net.pore_vertices
          /\ throat_vertices = net.throat_vertices
          /\ resolution = net.resolution
    /\ fiber_rad \in FiberRads
    /\ pc = "get_fiber_image"
    /\ calls = 1
    /\ err = "none"
    /\ log = {}
    /\ bound = {}
    /\ shape = <<0, 0, 0>>
    /\ rad_vox = 0
    /\ chunk_len = 0
    /\ cgrid = <<0, 0, 0>>
    /\ cnum = 0
    /\ pore_space = Unset
    /\ fiber_space = Unset
    /\ dt = Unset
    /\ fiber_image = Unset
    /\ dt_image = Unset
    /\ Ps = <<>>
    /\ hull_i = 0
    /\ hull_image = Unset
    /\ pore_volume = Unset
    /\ throat_i = 0
    /\ props = Unset
    /\ throat_props = Unset
    /\ throat_centroid = Unset
    /\ pore_centroid = Unset
    /\ pore_indiameter = Unset
    /\ pore_incenter = Unset
    /\ network = Unset
    /\ throat_c2c = Unset
    /\ conduit_lengths = Unset
    /\ target = Unset
    /\ iters = 0
    /\ D = Unset
    /\ D_is_stored = FALSE
    /\ D_den = 1
    /\ diameters = Unset
    /\ len_a = 0
    /\ outside = {}
    /\ plane_index = 0
    /\ dom = 0

Init == InitFrom(Networks)

\* ------------------------------------------------------------------------
\* _get_fiber_image
\* ------------------------------------------------------------------------

Grid(shp) ==
    {<<x, y, z>> : x \in 0 .. shp[1] - 1, y \in 0 .. shp[2] - 1, z \in 0 .. shp[3] - 1}

\* vertex_dimension(face1=self.pores(), parm="minmax")
VertexMin(axis) == SetMin({v[axis] : v \in UNION {pore_vertices[p + 1] : p \in Pores}})

VertexMax(axis) == SetMax({v[axis] : v \in UNION {pore_vertices[p + 1] : p \in Pores}})

\* np.around((fiber_rad - vox_len / 2) / vox_len, 0).astype(int)
FiberRadVoxels(rad, vox_len) == RoundHalfEven(2 * rad - vox_len, 2 * vox_len)

\* np.int(np.around(cdomain / vox_len) + 1)
AxisVoxels(axis, vox_len) == RoundHalfEven(VertexMax(axis) - VertexMin(axis), vox_len) + 1

\* the chunk edge of the fallback path
ChunkLen == 100

ChunkCount(l) == IF l > ChunkLen THEN CeilDiv(l, ChunkLen) ELSE 1

BoundAfter(fail) ==
    CASE fail = "none" -> {"pore_space", "fiber_space", "dt"}
      [] fail = "pore_space" -> {}
      [] fail = "fiber_space" -> {"pore_space"}
      [] fail = "dt" -> {"pore_space", "fiber_space"}

Zero == [dsq |-> 0, sub |-> 0]

\* lines 614-660: radius in voxels, translation of the facets, array shape,
\* the try block and its except branch
GetFiberImageSetup ==
    /\ pc = "get_fiber_image"
    \* fail: which of the three allocations of the try block raises, if any
    /\ \E fail \in {"none", "pore_space", "fiber_space", "dt"} :
          LET shp == <<AxisVoxels(1, resolution), AxisVoxels(2, resolution),
                       AxisVoxels(3, resolution)>>
              vmin == <<VertexMin(1), VertexMin(2), VertexMin(3)>>
          IN  /\ rad_vox' = FiberRadVoxels(fiber_rad, resolution)
              /\ throat_vertices' =
                    [t \in DOMAIN throat_vertices |->
                        [i \in DOMAIN throat_vertices[t] |->
                            <<throat_vertices[t][i][1] - vmin[1],
                              throat_vertices[t][i][2] - vmin[2],
                              throat_vertices[t][i][3] - vmin[3]>>]]
              /\ shape' = shp
              /\ bound' = BoundAfter(fail)
              /\ pore_space' = IF "pore_space" \in BoundAfter(fail)
                               THEN [v \in Grid(shp) |-> 1] ELSE Unset
              /\ fiber_space' = IF "fiber_space" \in BoundAfter(fail)
                                THEN [v \in Grid(shp) |-> 0] ELSE Unset
              /\ dt' = IF "dt" \in BoundAfter(fail)
                       THEN [v \in Grid(shp) |-> Zero] ELSE Unset
              /\ IF fail = "none"
                 THEN /\ cgrid' = <<1, 1, 1>>
                      /\ chunk_len' = SetMax({shp[1], shp[2], shp[3]})
                      /\ log' = log
                 ELSE /\ cgrid' = <<ChunkCount(shp[1]), ChunkCount(shp[2]),
                                    ChunkCount(shp[3])>>
                      /\ chunk_len' = ChunkLen
                      /\ log' = log \cup {"info: chunking domain"}
    /\ pc' = "seed"
    /\ UNCHANGED <<calls, err, inputVars, cnum, fiber_image, dt_image, hullVars, throatVars>>
    /\ UNCHANGED <<indiamVars, sideVars>>

PyIndex(i, n) == IF i < 0 THEN i + n ELSE i

\* Python indexing a[i] on an axis of length n: i in -n .. n-1 is accepted and
\* a negative i counts from the end; anything else raises IndexError
SeedInBounds(s, shp) == \A a \in 1 .. 3 : -shp[a] <= s[a] /\ s[a] < shp[a]

\* the voxels set to 0 by the loop of lines 665-671
MarkedVoxels(line_ints, shp) ==
    {<<PyIndex(s[1], shp[1]), PyIndex(s[2], shp[2]), PyIndex(s[3], shp[3])>> :
        s \in {q \in line_ints : SeedInBounds(q, shp)}}

\* lines 662-671: rasterize the facet edges into pore_space
SeedFibers ==
    /\ pc = "seed"
    /\ LET line_ints == LineInts(bresenham(throat_vertices, resolution), resolution)
       IN  IF "pore_space" \notin bound /\ line_ints # {}
           THEN /\ err' = "UnboundLocalError"
                /\ pc' = "aborted"
                /\ UNCHANGED <<pore_space, log>>
           ELSE /\ pore_space' =
                      IF "pore_space" \in bound
                      THEN [v \in Grid(shape) |->
                               IF v \in MarkedVoxels(line_ints, shape) THEN 0 ELSE 1]
                      ELSE pore_space
                /\ log' = IF \E s \in line_ints : ~SeedInBounds(s, shape)
                          THEN log \cup {"warning: out of bounds"} ELSE log
                /\ pc' = "chunk"
                /\ UNCHANGED err
    /\ cnum' = 1
    /\ UNCHANGED <<calls, inputVars, throat_vertices, bound, shape, rad_vox, chunk_len,
                   cgrid, fiber_space, dt, fiber_image, dt_image, hullVars, throatVars>>
    /\ UNCHANGED <<indiamVars, sideVars>>

\* the half-open index ranges of chunk (ci, cj, ck): lines 685-697
ChunkMin(c) == c * chunk_len

ChunkIndex(n) ==
    <<(n - 1) \div (cgrid[2] * cgrid[3]), ((n - 1) \div cgrid[3]) % cgrid[2],
      (n - 1) % cgrid[3]>>

\* lines 685-697: the window of chunk c, per axis from c * chunk_len to
\* (c + 1) * chunk_len + 5 * fiber_rad, cut at the end of the image
Window(c) ==
    {v \in Grid(shape) : \A a \in 1 .. 3 :
        /\ ChunkMin(c[a]) <= v[a]
        /\ v[a] < (c[a] + 1) * chunk_len + 5 * rad_vox
        /\ v[a] < shape[a]}

\* ndimage.distance_transform_edt on the sub-array W of img, squared: the
\* distance of v to the nearest zero of the sub-array.  With no zero in the
\* sub-array scipy measures to the index just before its first element.
EdtSquared(img, W, origin, v) ==
    LET zeros == {u \in W : img[u] = 0}
    IN  IF zeros = {}
        THEN Dist2(v, <<origin[1] - 1, origin[2] - 1, origin[3] - 1>>)
        ELSE SetMin({Dist2(v, u) : u \in zeros})

\* WithinRadius with the test dtc == fiber_rad
WithinRadiusShell(dsq, r) == r >= 0 /\ dsq = r * r

\* dtc <= fiber_rad, on squares
WithinRadius(dsq, r) == r >= 0 /\ dsq <= r * r

\* PhaseOf with the distance itself stored for the voxels beyond the radius
PhaseOfDistance(dsq, r) == IF WithinRadius(dsq, r) THEN 0 ELSE dsq

\* the value written to fiber_space for a voxel of the window: lines 700-705
PhaseOf(dsq, r) == IF WithinRadius(dsq, r) THEN 0 ELSE 1

\* lines 675-707: one iteration of the chunk loop
ProcessChunk ==
    /\ pc = "chunk"
    /\ cnum <= cgrid[1] * cgrid[2] * cgrid[3]
    /\ LET c == ChunkIndex(cnum)
           W == Window(c)
           dsq(v) == EdtSquared(pore_space, W, <<ChunkMin(c[1]), ChunkMin(c[2]), ChunkMin(c[3])>>, v)
       IN  IF {"pore_space", "fiber_space", "dt"} \subseteq bound
           THEN /\ fiber_space' = [v \in Grid(shape) |->
                                      IF v \in W THEN PhaseOf(dsq(v), rad_vox)
                                      ELSE fiber_space[v]]
                /\ dt' = [v \in Grid(shape) |->
                             IF v \in W THEN [dsq |-> dsq(v), sub |-> rad_vox]
                             ELSE dt[v]]
                /\ cnum' = cnum + 1
                /\ UNCHANGED <<pc, err>>
           ELSE \* a name of the try block was never bound
                /\ fiber_space' =
                      IF {"pore_space", "fiber_space"} \subseteq bound
                      THEN [v \in Grid(shape) |->
                               IF v \in W THEN PhaseOf(dsq(v), rad_vox)
                               ELSE fiber_space[v]]
                      ELSE fiber_space
                /\ err' = "UnboundLocalError"
                /\ pc' = "aborted"
                /\ UNCHANGED <<dt, cnum>>
    /\ UNCHANGED <<calls, log, inputVars, throat_vertices, bound, shape, rad_vox,
                   chunk_len, cgrid, pore_space, fiber_image, dt_image, hullVars, throatVars>>
    /\ UNCHANGED <<indiamVars, sideVars>>

\* the value sqrt(dsq) - sub kept as it is, below zero or not
ClampNone(x) == x

\* dt[dt < 0] = 0 for the value sqrt(dsq) - sub
Clamp(x) == IF x.sub >= 0 /\ x.dsq < x.sub * x.sub THEN Zero ELSE x

\* lines 708-711: publish the images
FinishFiberImage ==
    /\ pc = "chunk"
    /\ cnum > cgrid[1] * cgrid[2] * cgrid[3]
    /\ fiber_image' = fiber_space
    /\ dt_image' = [v \in DOMAIN dt |-> Clamp(dt[v])]
    /\ pc' = "hull_image"
    /\ UNCHANGED <<calls, err, log, inputVars, throat_vertices, bound, shape, rad_vox,
                   chunk_len, cgrid, cnum, pore_space, fiber_space, dt, hullVars, throatVars>>
    /\ UNCHANGED <<indiamVars, sideVars>>

\* ------------------------------------------------------------------------
\* inhull / in_hull_volume
\* ------------------------------------------------------------------------

Sub3(u, v) == <<u[1] - v[1], u[2] - v[2], u[3] - v[3]>>

Dot3(u, v) == u[1] * v[1] + u[2] * v[2] + u[3] * v[3]

Cross3(u, v) ==
    <<u[2] * v[3] - u[3] * v[2], u[3] * v[1] - u[1] * v[3], u[1] * v[2] - u[2] * v[1]>>

\* sptl.ConvexHull raises QhullError unless four of the points span a volume
HullIsDegenerate(V) ==
    ~ \E a \in V, b \in V, c \in V, d \in V :
          Dot3(Cross3(Sub3(b, a), Sub3(c, a)), Sub3(d, a)) # 0

\* The facets of the hull of V, each as the set of vertices on its plane:
\* planes through three vertices that leave all of V on one side.
HullFacets(V) ==
    LET triples == {T \in SUBSET V : Cardinality(T) = 3}
        nrm(T) == LET a == CHOOSE x \in T : TRUE
                      b == CHOOSE x \in T \ {a} : TRUE
                      c == CHOOSE x \in T \ {a, b} : TRUE
                  IN  [a |-> a, n |-> Cross3(Sub3(a, b), Sub3(a, c))]
        supports(T) ==
            /\ nrm(T).n # <<0, 0, 0>>
            /\ \/ \A v \in V : Dot3(nrm(T).n, Sub3(v, nrm(T).a)) >= 0
               \/ \A v \in V : Dot3(nrm(T).n, Sub3(v, nrm(T).a)) <= 0
    IN  {{v \in V : Dot3(nrm(T).n, Sub3(v, nrm(T).a)) = 0} : T \in {S \in triples : supports(S)}}

\* (sum of the vertices - |V| * a) . n, the sign of (center - a) . n
RECURSIVE CenterSide(_, _, _)
CenterSide(V, a, n) ==
    IF V = {} THEN 0
    ELSE LET v == CHOOSE y \in V : TRUE IN Dot3(Sub3(v, a), n) + CenterSide(V \ {v}, a, n)

\* lines 497-510: the plane of a facet, its normal turned towards the centre
\* of mass of the vertices (dp < 0 flips it); qhull triangulates a facet of
\* k vertices into k - 2 simplices, each tested against this plane
InwardPlane(F, V) ==
    LET a == CHOOSE x \in F : TRUE
        b == CHOOSE x \in F \ {a} : TRUE
        c == CHOOSE x \in F \ {a, b} : Cross3(Sub3(a, b), Sub3(a, x)) # <<0, 0, 0>>
        n == Cross3(Sub3(a, b), Sub3(a, c))
        dp == CenterSide(V, a, n)
    IN  [a |-> a, n |-> IF dp < 0 THEN <<-n[1], -n[2], -n[3]>> ELSE n, simplices |-> Cardinality(F) - 2]

HullPlanes(V) == {InwardPlane(F, V) : F \in HullFacets(V)}

\* the number of simplices among the planes Pl
RECURSIVE SimplexTotal(_)
SimplexTotal(Pl) ==
    IF Pl = {} THEN 0
    ELSE LET q == CHOOSE y \in Pl : TRUE IN q.simplices + SimplexTotal(Pl \ {q})

\* line 518: xN - aN >= 0 - tol for the index idx (a point idx * R in the
\* units of the vertices).  Both sides are integers times R * |n| and the
\* tolerance 1e-7 is below one unit, so the test is n . (x - a) >= 0.
PlaneTest(pl, idx, R) ==
    Dot3(pl.n, Sub3(<<idx[1] * R, idx[2] * R, idx[3] * R>>, pl.a)) >= 0

\* the width of the uint8 counter dom
CounterModulus == 256

\* lines 513-520: dom after the loop and the two assignments, for a hull
\* with the planes Pl, len(a) = total
DomValue(Pl, total, idx, R) ==
    LET count == SimplexTotal({q \in Pl : PlaneTest(q, idx, R)}) % CounterModulus
    IN  IF count < total THEN 0 ELSE IF count = total THEN 1 ELSE count

\* Python slice a[s:e] on an axis of length n: the indices it selects
SliceStart(s, n) == IF s < 0 THEN (IF s + n < 0 THEN 0 ELSE s + n) ELSE (IF s > n THEN n ELSE s)

SliceIndices(s, e, n) == {i \in 0 .. n - 1 : SliceStart(s, n) <= i /\ i < SliceStart(e, n)}

\* lines 477-490: per axis the start index si and the extent of dom
HullMin(V, a) == SetMin({v[a] : v \in V})

HullStartIndex(V, a, R) == FloorDiv(HullMin(V, a), R)

HullExtent(V, a, R) ==
    CeilDiv(SetMax({v[a] : v \in V}), R) - FloorDiv(HullMin(V, a), R) + 1

\* line 523-525 broadcasts dom into the slice: the slice must have dom's shape
SliceFits(V, R, shp) ==
    \A a \in 1 .. 3 :
        Cardinality(SliceIndices(HullStartIndex(V, a, R),
                                 HullStartIndex(V, a, R) + HullExtent(V, a, R), shp[a]))
            = HullExtent(V, a, R)

\* the voxels of the image that inhull marks for a hull with vertices V
HullVoxels(V, R, shp) ==
    LET lo == <<HullMin(V, 1), HullMin(V, 2), HullMin(V, 3)>>
        Pl == HullPlanes({Sub3(v, lo) : v \in V})
        total == SimplexTotal(Pl)
        first == [a \in 1 .. 3 |-> SliceStart(HullStartIndex(V, a, R), shp[a])]
        slice == [a \in 1 .. 3 |->
                     SliceIndices(HullStartIndex(V, a, R),
                                  HullStartIndex(V, a, R) + HullExtent(V, a, R), shp[a])]
    IN  {v \in Grid(shp) :
            /\ \A a \in 1 .. 3 : v[a] \in slice[a]
            /\ DomValue(Pl, total, <<v[1] - first[1], v[2] - first[2], v[3] - first[3]>>, R) # 0}

\* LabelHull writing only the voxels that no pore has labelled yet
LabelHullFirst(img, voxels, pore) ==
    [v \in DOMAIN img |-> IF v \in voxels /\ img[v] = -1 THEN pore ELSE img[v]]

\* line 526: self._hull_image[temp_arr] = pore
LabelHull(img, voxels, pore) == [v \in DOMAIN img |-> IF v \in voxels THEN pore ELSE img[v]]

RECURSIVE Perms(_)
Perms(S) ==
    IF S = {} THEN {<<>>}
    ELSE UNION {{<<x>> \o q : q \in Perms(S \ {x})} : x \in S}

\* lines 534-541: the pores to voxelize and the empty label image.  The
\* loop of line 542 runs over Ps; the order of Ps is left open here (the
\* source uses ascending pore index).
HullImageInit ==
    /\ pc = "hull_image"
    /\ Ps' \in Perms(Pores)
    /\ hull_image' = [v \in DOMAIN fiber_image |-> -1]
    /\ hull_i' = 0
    /\ pc' = "inhull"
    /\ UNCHANGED <<calls, err, log, inputVars, throat_vertices, fiberVars, pore_volume, throatVars>>
    /\ UNCHANGED <<indiamVars, sideVars>>

\* lines 542-547 and inhull: one iteration of the loop over Ps
Inhull ==
    /\ pc = "inhull"
    /\ hull_i < Len(Ps)
    /\ LET pore == Ps[hull_i + 1]
           V == pore_vertices[pore + 1]
       IN  IF HullIsDegenerate(V)
           THEN /\ err' = "QhullError"
                /\ pc' = "aborted"
                /\ UNCHANGED <<hull_image, hull_i>>
           ELSE IF ~SliceFits(V, resolution, shape)
           THEN /\ err' = "ValueError"
                /\ pc' = "aborted"
                /\ UNCHANGED <<hull_image, hull_i>>
           ELSE /\ hull_image' = LabelHull(hull_image, HullVoxels(V, resolution, shape), pore)
                /\ hull_i' = hull_i + 1
                /\ UNCHANGED <<err, pc>>
    /\ UNCHANGED <<calls, log, inputVars, throat_vertices, fiberVars, Ps, pore_volume, throatVars>>
    /\ UNCHANGED <<indiamVars, sideVars>>

\* ndimage.maximum_filter(img, size=2): the maximum over the 2x2x2 block
\* ending at v, indices before 0 reflected back to 0
MaximumFilter(img, v) ==
    LET Reflect(i) == IF i < 0 THEN -i - 1 ELSE i
    IN  SetMax({img[<<Reflect(v[1] - d[1]), Reflect(v[2] - d[2]), Reflect(v[3] - d[3])>>] :
                   d \in {0, 1} \X {0, 1} \X {0, 1}})

\* lines 548-551
FillEscaped(img) == [v \in DOMAIN img |-> IF img[v] = -1 THEN MaximumFilter(img, v) ELSE img[v]]

\* a copy of the label image left as it is
PoreSpaceAll(labels, phase) == labels

\* lines 563 and 565: the copy of the label image with -1 on the voxels
\* where the fiber image is 0
PoreSpace(labels, phase) == [v \in DOMAIN labels |-> IF phase[v] = 0 THEN -1 ELSE labels[v]]

\* lines 561-571: np.unique(pore_space, return_counts=True), the labels
\* above -1, and pore_vox, zero where no row of the frequencies writes
PoreVoxels(labels, phase, pore) ==
    LET space == PoreSpace(labels, phase)
        freq == {<<l, Cardinality({v \in DOMAIN space : space[v] = l})>> :
                    l \in {space[v] : v \in DOMAIN space} \ {-1}}
    IN  IF \E f \in freq : f[1] = pore
        THEN (CHOOSE f \in freq : f[1] = pore)[2]
        ELSE 0

\* lines 548-552: the fill pass, then _process_pore_voxels
FillAndCount ==
    /\ pc = "inhull"
    /\ hull_i = Len(Ps)
    /\ hull_image' = FillEscaped(hull_image)
    \* line 573: pore_vox * self.network.resolution ** 3
    /\ pore_volume' = [p \in Pores |->
                          PoreVoxels(FillEscaped(hull_image), fiber_image, p)
                              * resolution * resolution * resolution]
    /\ pc' = IF calls = 1 THEN "centroids" ELSE "done"
    /\ UNCHANGED <<calls, err, log, inputVars, throat_vertices, fiberVars, Ps, hull_i, throatVars>>
    /\ UNCHANGED <<indiamVars, sideVars>>

\* ------------------------------------------------------------------------
\* _indiameter_from_fibers
\* ------------------------------------------------------------------------

\* an entry sqrt(dsq) - sub of the distance image that is zero
DtIsZero(x) == x.dsq = x.sub * x.sub

\* sqrt(a.dsq) - a.sub <= sqrt(b.dsq) - b.sub, for entries of one image:
\* none is negative, and those above zero share sub, the radius of the pass
DtLeq(a, b) ==
    IF DtIsZero(a) THEN TRUE
    ELSE IF DtIsZero(b) THEN FALSE
    ELSE a.dsq <= b.dsq

\* line 261: self._dt_image * (self._hull_image == pore), at voxel v
DtPore(dtimg, labels, pore, v) ==
    IF labels[v] = pore /\ ~DtIsZero(dtimg[v]) THEN dtimg[v] ELSE Zero

\* dt_pore.max()
DtPoreMax(dtimg, labels, pore) ==
    LET vals == {DtPore(dtimg, labels, pore, v) : v \in DOMAIN labels}
    IN  CHOOSE a \in vals : \A b \in vals : DtLeq(b, a)

\* np.argmax(dt_pore): the first voxel in C order that holds the maximum
DtPoreArgMax(dtimg, labels, pore) ==
    LET top == DtPoreMax(dtimg, labels, pore)
        at == {v \in DOMAIN labels : DtPore(dtimg, labels, pore, v) = top}
        Before3(a, b) ==
            \/ a[1] < b[1]
            \/ a[1] = b[1] /\ a[2] < b[2]
            \/ a[1] = b[1] /\ a[2] = b[2] /\ a[3] <= b[3]
    IN  CHOOSE a \in at : \A b \in at : Before3(a, b)

\* line 253: np.unique(self._hull_image), ascending
RECURSIVE SortedSeq(_)
SortedSeq(S) == IF S = {} THEN <<>> ELSE <<SetMin(S)>> \o SortedSeq(S \ {SetMin(S)})

\* lines 259-266: the loop over hull_pores from position k on; indiam and
\* incen are written at index pore, which Python takes from the end when
\* pore is negative
RECURSIVE IndiamLoop(_, _, _, _, _)
IndiamLoop(dtimg, labels, hull_pores, k, acc) ==
    IF k > Len(hull_pores) THEN acc
    ELSE LET pore == hull_pores[k]
             at == PyIndex(pore, Len(acc))
         IN  IndiamLoop(dtimg, labels, hull_pores, k + 1,
                 [acc EXCEPT ![at + 1] =
                     [max |-> DtPoreMax(dtimg, labels, pore),
                      ind |-> DtPoreArgMax(dtimg, labels, pore)]])

\* lines 234-242: np.mean(i_verts, axis=0) of each vertex array, as the point
\* sum / count.  A vertex array is a function from its row indices to rows.
_centroids(verts) ==
    LET AxisSum(v, a) ==
            LET vals == SortedSeq({v[r][a] : r \in DOMAIN v})
            IN  SumSeq([k \in 1 .. Len(vals) |->
                          vals[k] * Cardinality({r \in DOMAIN v : v[r][a] = vals[k]})])
    IN  [i \in 0 .. Len(verts) - 1 |->
            [num |-> <<AxisSum(verts[i + 1], 1), AxisSum(verts[i + 1], 2),
                       AxisSum(verts[i + 1], 3)>>,
             den |-> Cardinality(DOMAIN verts[i + 1])]]

\* lines 184-186 (throat.normal is recomputed where _throat_props reads it).
\* t_coords of line 185 is the array handed to self["throat.vertices"] at
\* line 181: where the store kept the rows of that array, they were shifted
\* by _get_fiber_image (aliased); where it copied them, they are as given.
StoreCentroids ==
    /\ pc = "centroids"
    /\ \E aliased \in BOOLEAN :
          LET vmin == IF aliased THEN <<0, 0, 0>>
                      ELSE <<VertexMin(1), VertexMin(2), VertexMin(3)>>
          IN  throat_centroid' =
                  _centroids([t \in DOMAIN throat_vertices |->
                                 [i \in DOMAIN throat_vertices[t] |->
                                     <<throat_vertices[t][i][1] + vmin[1],
                                       throat_vertices[t][i][2] + vmin[2],
                                       throat_vertices[t][i][3] + vmin[3]>>]])
    \* a hull is kept as the set of its vertices: its rows indexed by themselves
    /\ pore_centroid' = _centroids([p \in DOMAIN pore_vertices |->
                                       [r \in pore_vertices[p] |-> r]])
    /\ pc' = "indiameter"
    /\ UNCHANGED <<calls, err, log, inputVars, throat_vertices, fiberVars, hullVars,
                   throat_i, props, throat_props, indiamVars, sideVars>>

\* lines 244-269
IndiameterFromFibers ==
    /\ pc = "indiameter"
    /\ LET Np == Len(pore_vertices)
           hull_pores == SortedSeq({hull_image[v] : v \in DOMAIN hull_image})
           out == IndiamLoop(dt_image, hull_image, hull_pores, 1,
                             [p \in 1 .. Np |-> [max |-> Zero, ind |-> <<0, 0, 0>>]])
       IN  \* lines 262 and 267: dt_pore.max() * 2, then indiam *= resolution
           /\ pore_indiameter' = [p \in Pores |->
                                     [dsq |-> out[p + 1].max.dsq, sub |-> out[p + 1].max.sub,
                                      times |-> 2 * resolution]]
           /\ pore_incenter' = [p \in Pores |->
                                   <<resolution * out[p + 1].ind[1],
                                     resolution * out[p + 1].ind[2],
                                     resolution * out[p + 1].ind[3]>>]
    /\ pc' = "throat_props"
    /\ UNCHANGED <<calls, err, log, inputVars, throat_vertices, fiberVars, hullVars,
                   throatVars, sideVars>>

\* ------------------------------------------------------------------------
\* _t_normals / _throat_props
\* ------------------------------------------------------------------------

\* half the image edge of _throat_props
HalfRes == 4

\* the image edge of _throat_props, an even number (the source rasterizes
\* at 200)
res == 2 * HalfRes

\* _t_normals, for a facet lying in a plane normal to a coordinate axis: the
\* unit vector along cross(v1, v2) of the hull-ordered vertices
ThroatNormal(face) ==
    LET axes == IF Cardinality({face[i][1] : i \in DOMAIN face}) = 1 THEN <<2, 3>>
                ELSE IF Cardinality({face[i][2] : i \in DOMAIN face}) = 1 THEN <<1, 3>>
                ELSE <<1, 2>>
        hv == ConvexHullVertices(Project2D(face, axes))
        v1 == Sub3(face[hv[Len(hv)]], face[hv[1]])
        v2 == Sub3(face[hv[2]], face[hv[1]])
        c == Cross3(v1, v2)
        Sign(a) == IF a > 0 THEN 1 ELSE IF a < 0 THEN -1 ELSE 0
    IN  <<Sign(c[1]), Sign(c[2]), Sign(c[3])>>

\* angle == 0.0 or angle == np.pi
AlignedWithZ(n) == n[1] = 0 /\ n[2] = 0

\* v turned by M = rotation_matrix(angle, normal x z) for a unit normal n at
\* a right angle to z, the quarter turn about k = n x z (turn = 1), or by
\* tr.inverse_matrix(M), the quarter turn back (turn = -1):
\* M v = k x v + (k . v) k
Rotate(n, v, turn) ==
    LET k == Cross3(n, <<0, 0, 1>>)
        kv == Cross3(k, v)
        d == Dot3(k, v)
    IN  <<turn * kv[1] + d * k[1], turn * kv[2] + d * k[2], turn * kv[3] + d * k[3]>>

Pixels(s0, s1) == {<<i, j>> : i \in 0 .. s0 - 1, j \in 0 .. s1 - 1}

\* skimage convex_hull_image on the padded image: a pixel is set when its
\* centre lies in the convex hull of the set pixels, each widened by half a
\* pixel along both axes.  Coordinates are doubled to stay integral.
ConvexHullImage(points, s0, s1) ==
    LET S == UNION {{<<2 * q[1] + 1, 2 * q[2]>>, <<2 * q[1] - 1, 2 * q[2]>>,
                      <<2 * q[1], 2 * q[2] + 1>>, <<2 * q[1], 2 * q[2] - 1>>} : q \in points}
        E == {e \in {<<a, b>> : a \in S, b \in S} :
                 e[1] # e[2] /\ \A q \in S : Cross2(e[1], e[2], q) >= 0}
    IN  {q \in Pixels(s0, s1) : \A e \in E : Cross2(e[1], e[2], <<2 * q[1], 2 * q[2]>>) >= 0}

\* ndimage.distance_transform_edt of a binary image with the set pixels
\* img, squared: the distance to the nearest pixel of the frame not in img
Edt2(img, frame, q) == IF q \in img THEN SetMin({Len2D(q, b) : b \in {c \in frame : c \notin img}}) ELSE 0

\* the first of the pixels S in row-major order (np.argmax, np.argmin, coords)
First(S) == CHOOSE a \in S : \A b \in S : a[1] < b[1] \/ (a[1] = b[1] /\ a[2] <= b[2])

\* lines 416-420: the region pixels nearest to each original vertex
RECURSIVE OffsetVerts(_, _, _, _)
OffsetVerts(int_pts, coords, k, acc) ==
    IF k > Len(int_pts) THEN acc
    ELSE LET best == SetMin({Len2D(c, int_pts[k]) : c \in coords})
             vert == First({c \in coords : Len2D(c, int_pts[k]) = best})
         IN  OffsetVerts(int_pts, coords, k + 1,
                         IF \E j \in DOMAIN acc : acc[j] = vert THEN acc
                         ELSE Append(acc, vert))

SumPixels(S) ==
    LET AxisSum(a) ==
            LET vals == SortedSeq({q[a] : q \in S})
            IN  SumSeq([k \in 1 .. Len(vals) |->
                           vals[k] * Cardinality({q \in S : q[a] = vals[k]})])
    IN  <<AxisSum(1), AxisSum(2)>>

\* a point num / den
Point(num, den) == [num |-> num, den |-> den]

\* ZeroProps with the incenter array created by np.ones
OnesIncenterProps ==
    [area |-> 0, perimeter |-> [unit |-> 0, diag |-> 0, mixed |-> 0],
     equiv_diameter |-> 0, inradius |-> 0, scale |-> <<1, 1>>,
     centroid |-> Point(<<0, 0, 0>>, 1), incenter |-> Point(<<1, 1, 1>>, 1), eroded_verts |-> <<>>]

\* the row of the result arrays of lines 304-310 that is never written
ZeroProps ==
    [area |-> 0, perimeter |-> [unit |-> 0, diag |-> 0, mixed |-> 0],
     equiv_diameter |-> 0, inradius |-> 0, scale |-> <<1, 1>>,
     centroid |-> Point(<<0, 0, 0>>, 1), incenter |-> Point(<<0, 0, 0>>, 1), eroded_verts |-> <<>>]

\* props.perimeter of line 396 (skimage.measure.perimeter, 4-neighbourhood).
\* The border of the region is what a cross-shaped erosion removes; every
\* border pixel gets the code 1 + 2 * (border pixels beside it) + 10 *
\* (border pixels diagonal to it), and the codes are weighted 1, sqrt(2) or
\* (1 + sqrt(2)) / 2.  The perimeter is kept as the three counts.
Perimeter(coords) ==
    LET B == {q \in coords :
                 \E d \in {<<1, 0>>, <<-1, 0>>, <<0, 1>>, <<0, -1>>} :
                     <<q[1] + d[1], q[2] + d[2]>> \notin coords}
        BorderCode(q) ==
            1 + 2 * Cardinality({d \in {<<1, 0>>, <<-1, 0>>, <<0, 1>>, <<0, -1>>} :
                                    <<q[1] + d[1], q[2] + d[2]>> \in B})
              + 10 * Cardinality({d \in {<<1, 1>>, <<1, -1>>, <<-1, 1>>, <<-1, -1>>} :
                                    <<q[1] + d[1], q[2] + d[2]>> \in B})
    IN  [unit |-> Cardinality({q \in B : BorderCode(q) \in {5, 7, 15, 17, 25, 27}}),
         diag |-> Cardinality({q \in B : BorderCode(q) \in {21, 33}}),
         mixed |-> Cardinality({q \in B : BorderCode(q) \in {13, 23}})]

\* RadiusFits with the limit res / 4
RadiusFitsQuarter(offset, max_factor) == 4 * offset <= max_factor

\* line 349: r <= res / 2, with r = f * offset and f = res / max_factor
RadiusFits(offset, max_factor) == 2 * offset <= max_factor

\* line 385
EnoughPixels(n) == n >= 3

\* EnoughVerts with the limit 2
EnoughVertsTwo(n) == n >= 2

\* line 424
EnoughVerts(n) == n >= 3

\* lines 321-335: the facet turned into the plane z = const, n its normal
RotatedFacet(face, n) ==
    [i \in DOMAIN face |-> IF AlignedWithZ(n) THEN face[i] ELSE Rotate(n, face[i], 1)]

\* lines 321-340 and 369: what the analysis keeps of the turned facet: the
\* translation of line 339, pts after pts -= translation, and z_plane.  The
\* facets are planar, so z_plane is the one z of the turned facet.
FacetFrame(facet, n) ==
    LET t == <<SetMin({facet[i][1] : i \in DOMAIN facet}),
               SetMin({facet[i][2] : i \in DOMAIN facet})>>
    IN  [n |-> n,
         translation |-> t,
         z_plane |-> SetMin({facet[i][3] : i \in DOMAIN facet}),
         pts |-> [i \in DOMAIN facet |-> <<facet[i][1] - t[1], facet[i][2] - t[2]>>]]

Span(pts, a) == SetMax({pts[i][a] : i \in DOMAIN pts})

\* line 344: max_factor of the translated points pts
MaxFactor(face) ==
    LET pts == FacetFrame(RotatedFacet(face, ThroatNormal(face)), ThroatNormal(face)).pts
    IN  SetMax({Span(pts, 1), Span(pts, 2)})

\* lines 350, 361: pts *= f, rounded
IntPoints(pts, max_factor) ==
    [i \in DOMAIN pts |-> <<RoundHalfEven(pts[i][1] * res, max_factor),
                            RoundHalfEven(pts[i][2] * res, max_factor)>>]

\* lines 351-360: the shape of img
ImageShape(pts, max_factor) ==
    <<CeilDiv(Span(pts, 1) * res, max_factor) + 1, CeilDiv(Span(pts, 2) * res, max_factor) + 1>>

\* lines 362-366: the set pixels of img_pad
PaddedImage(int_pts) == {<<int_pts[i][1] + 1, int_pts[i][2] + 1>> : i \in DOMAIN int_pts}

\* Erode keeping the pixels at the distance r as well
ErodeKeepingRim(convhullimg, frame, offset, max_factor) ==
    {q \in convhullimg :
        Edt2(convhullimg, frame, q) * max_factor * max_factor >= res * res * offset * offset}

\* lines 380-382: the pixels of convhullimg farther than r = f * offset from
\* its complement
Erode(convhullimg, frame, offset, max_factor) ==
    {q \in convhullimg :
        Edt2(convhullimg, frame, q) * max_factor * max_factor > res * res * offset * offset}

\* lines 387-388, 397: the coordinates of the set pixels of cropped
Cropped(eroded, shp) ==
    {<<q[1] - 1, q[2] - 1>> :
        q \in {e \in eroded : 1 <= e[1] /\ e[1] <= shp[1] /\ 1 <= e[2] /\ e[2] <= shp[2]}}

\* line 451: dt.max(), squared
DtMax(eroded, frame) == SetMax({Edt2(eroded, frame, q) : q \in eroded})

\* lines 440-449: the point back in the frame of the facet
Unrotate(n, p) == IF AlignedWithZ(n) THEN p ELSE Point(Rotate(n, p.num, -1), p.den)

\* lines 400-402, 411-413, 428-436: the pixel position c / d scaled by 1 / f,
\* translated back and put in the plane z_plane
Lift(g, max_factor, c, d) ==
    Unrotate(g.n, Point(<<c[1] * max_factor + g.translation[1] * d * res,
                          c[2] * max_factor + g.translation[2] * d * res,
                          g.z_plane * d * res>>, d * res))

\* lines 424-460.  Pixel measures are kept in image units with the scale
\* f = scale[1] / scale[2]: area is area / f^2, inradius^2 is inradius / f^2,
\* equiv_diameter is that of a region of area pixels, over f, perimeter is
\* perimeter / f.
Measures(g, max_factor, eroded, coords, frame, offset_verts) ==
    IF ~EnoughVerts(Len(offset_verts)) THEN ZeroProps
    ELSE [area |-> Cardinality(coords),
          perimeter |-> Perimeter(coords),
          equiv_diameter |-> Cardinality(coords),
          inradius |-> DtMax(eroded, frame),
          scale |-> <<res, max_factor>>,
          centroid |-> Lift(g, max_factor, SumPixels(coords), Cardinality(coords)),
          \* line 406: the first pixel with the largest distance
          incenter |-> Lift(g, max_factor,
                            First({q \in eroded : Edt2(eroded, frame, q) = DtMax(eroded, frame)}), 1),
          eroded_verts |-> [k \in DOMAIN offset_verts |-> Lift(g, max_factor, offset_verts[k], 1)]]

\* lines 389-420
AnalyseRegion(g, max_factor, int_pts, eroded, coords, frame) ==
    \* regionprops on the cropped 0/1 image: the image holds the single label 1
    IF coords = {} THEN ZeroProps
    ELSE Measures(g, max_factor, eroded, coords, frame, OffsetVerts(int_pts, coords, 1, <<>>))

\* lines 385-388
AnalyseEroded(g, max_factor, int_pts, shp, frame, eroded) ==
    IF ~EnoughPixels(Cardinality(eroded)) THEN ZeroProps
    ELSE AnalyseRegion(g, max_factor, int_pts, eroded, Cropped(eroded, shp), frame)

\* lines 350-382
AnalyseImage(g, max_factor, int_pts, shp, frame, offset) ==
    AnalyseEroded(g, max_factor, int_pts, shp, frame,
                  Erode(ConvexHullImage(PaddedImage(int_pts), shp[1] + 2, shp[2] + 2),
                        frame, offset, max_factor))

\* lines 344-349
AnalyseFrame(g, max_factor, offset) ==
    IF ~RadiusFits(offset, max_factor) THEN ZeroProps
    ELSE AnalyseImage(g, max_factor, IntPoints(g.pts, max_factor),
                      ImageShape(g.pts, max_factor),
                      Pixels(ImageShape(g.pts, max_factor)[1] + 2,
                             ImageShape(g.pts, max_factor)[2] + 2),
                      offset)

\* one pass of the loop body of lines 317-460 for a facet and the fiber
\* radius offset
ThroatAnalysis(face, offset) ==
    AnalyseFrame(FacetFrame(RotatedFacet(face, ThroatNormal(face)), ThroatNormal(face)),
                 MaxFactor(face), offset)

\* line 317: one throat per iteration, in index order
ThroatProps ==
    /\ pc = "throat_props"
    /\ throat_i < Len(throat_vertices)
    /\ props' = [t \in 0 .. Len(throat_vertices) - 1 |->
                    IF t = throat_i
                    THEN ThroatAnalysis(throat_vertices[t + 1], fiber_rad)
                    ELSE IF throat_i = 0 THEN ZeroProps ELSE props[t]]
    /\ throat_i' = throat_i + 1
    /\ UNCHANGED <<calls, pc, err, log, inputVars, throat_vertices, fiberVars, hullVars,
                   throat_props, throat_centroid, pore_centroid>>
    /\ UNCHANGED <<indiamVars, sideVars>>

\* lines 462-468
PublishThroatProps ==
    /\ pc = "throat_props"
    /\ throat_i = Len(throat_vertices)
    /\ throat_props' = props
    \* line 464
    /\ throat_centroid' = [t \in DOMAIN props |-> props[t].centroid]
    /\ pc' = "done"
    /\ UNCHANGED <<calls, err, log, inputVars, throat_vertices, fiberVars, hullVars,
                   throat_i, props, pore_centroid>>
    /\ UNCHANGED <<indiamVars, sideVars>>

\* a later call of in_hull_volume on the constructed geometry: line 529
InHullVolumeAgain ==
    /\ pc = "done"
    /\ calls < MaxCalls
    /\ calls' = calls + 1
    /\ pc' = "get_fiber_image"
    /\ UNCHANGED <<err, log, inputVars, throat_vertices, fiberVars, hullVars, throatVars>>
    /\ UNCHANGED <<indiamVars, sideVars>>

Next ==
    \/ GetFiberImageSetup
    \/ SeedFibers
    \/ ProcessChunk
    \/ FinishFiberImage
    \/ HullImageInit
    \/ Inhull
    \/ FillAndCount
    \/ StoreCentroids
    \/ IndiameterFromFibers
    \/ ThroatProps
    \/ PublishThroatProps
    \/ InHullVolumeAgain

Spec == Init /\ [][Next]_vars

\* ------------------------------------------------------------------------
\* Properties of _get_fiber_image
\* ------------------------------------------------------------------------

\* the except branch of lines 642-660 was taken in the current run
FellBack == pc # "get_fiber_image" /\ bound # {"pore_space", "fiber_space", "dt"}

\* the rounded indices of the seed points of the current run: line 663
SeedIndices == LineInts(bresenham(throat_vertices, resolution), resolution)

\* the voxels the single-chunk pass classifies as fiber for the fiber radius rad
FiberVoxelsAt(img, shp, rad, vox_len) ==
    {v \in Grid(shp) :
        PhaseOf(EdtSquared(img, Grid(shp), <<0, 0, 0>>, v), FiberRadVoxels(rad, vox_len)) = 0}

FiberVoxels == {v \in DOMAIN fiber_image : fiber_image[v] = 0}

\* C1: a run that takes the chunked path ends with every voxel classified as
\* the unchunked pass classifies it.
C1_ChunkedMatchesUnchunked ==
    (FellBack /\ pc \in {"aborted", "hull_image"})
        => /\ pc = "hull_image"
           /\ FiberVoxels = FiberVoxelsAt(pore_space, shape, fiber_rad, resolution)

\* C2: once _get_fiber_image has published the fiber image, every voxel of
\* the grid holds exactly one of the two phase flags, so the fiber voxels
\* and the pore voxels together count the whole grid.
C2_PartitionComplete ==
    pc = "hull_image"
        => /\ DOMAIN fiber_image = Grid(shape)
           /\ \A v \in Grid(shape) : fiber_image[v] \in {0, 1}
           /\ Cardinality(FiberVoxels)
                 + Cardinality({v \in DOMAIN fiber_image : fiber_image[v] = 1})
                 = shape[1] * shape[2] * shape[3]

C2_Witness ==
    /\ pc = "hull_image"
    /\ FiberVoxels # {}
    /\ \E v \in DOMAIN fiber_image : fiber_image[v] = 1

\* C3: with the seeds and the resolution of the run kept, every voxel that
\* is fiber at the run's radius is fiber at every larger radius.
C3_FiberGrowsWithRadius ==
    pc = "hull_image"
        => \A larger \in FiberRads :
              larger > fiber_rad
                  => FiberVoxels \subseteq FiberVoxelsAt(pore_space, shape, larger, resolution)

C3_Witness ==
    /\ pc = "hull_image"
    /\ FiberVoxels # {}
    /\ \E larger \in FiberRads :
          /\ larger > fiber_rad
          /\ FiberVoxelsAt(pore_space, shape, larger, resolution) \ FiberVoxels # {}

\* C8: a run whose allocation failed ends, if it ends in an error, in
\* InsufficientMemory and in no other error.
C8_FallbackEndsCleanly == (FellBack /\ pc = "aborted") => err = "InsufficientMemory"

Filled == (pc = "throat_props" /\ throat_i = 0) \/ pc = "done"

\* the pairs <<pore, voxel>> with the voxel marked by the pore's voxelization
Marks ==
    UNION {{<<p, v>> : v \in HullVoxels(pore_vertices[p + 1], resolution, shape)} : p \in Pores}

\* the pores that mark the voxel v according to the pairs M
MarkingPores(M, v) == {p \in Pores : <<p, v>> \in M}

\* lines 542-551 run over the pores in the order given
RECURSIVE VoxelizeAll(_, _)
VoxelizeAll(order, img) ==
    IF order = <<>> THEN FillEscaped(img)
    ELSE VoxelizeAll(Tail(order),
                     LabelHull(img, HullVoxels(pore_vertices[Head(order) + 1], resolution, shape),
                               Head(order)))

\* C4: after the fill pass no voxel inside the hull of a pore is unassigned.
C4_HullUnionAssigned ==
    Filled =>
        \A p \in Pores :
            LET Pl == HullPlanes(pore_vertices[p + 1])
            IN  \A v \in Grid(shape) :
                    (\A pl \in Pl : PlaneTest(pl, v, resolution)) => hull_image[v] # -1

C9_DegenerateHullSkipped == ~(pc = "aborted" /\ err = "QhullError")

\* ------------------------------------------------------------------------
\* Properties of _throat_props
\* ------------------------------------------------------------------------

\* a facet with four corners spanning a square in a coordinate plane
IsSquare(face) ==
    /\ Len(face) = 4
    /\ \E a \in 1 .. 3 : \E lo \in {face[i][a] : i \in DOMAIN face} :
          LET b == IF a = 1 THEN 2 ELSE 1
              c == IF a = 3 THEN 2 ELSE 3
              lb == SetMin({face[i][b] : i \in DOMAIN face})
              lc == SetMin({face[i][c] : i \in DOMAIN face})
              s == SetMax({face[i][b] : i \in DOMAIN face}) - lb
          IN  /\ s > 0
              /\ {face[i] : i \in DOMAIN face}
                    = {[k \in 1 .. 3 |-> IF k = a THEN lo ELSE IF k = b THEN lb + d[1] ELSE lc + d[2]] :
                          d \in {0, s} \X {0, s}}

\* C6: every analysed throat has no offset vertices or at least three.
C6_OffsetVertexCount ==
    /\ \A t \in {u \in DOMAIN props : u < throat_i} : Len(props[t].eroded_verts) \notin {1, 2}
    /\ \A t \in DOMAIN throat_props : Len(throat_props[t].eroded_verts) \notin {1, 2}

C6_Witness ==
    /\ pc = "done"
    /\ \E t \in DOMAIN throat_props :
          /\ RadiusFits(fiber_rad, MaxFactor(throat_vertices[t + 1]))
          /\ Len(throat_props[t].eroded_verts) = 0

\* C7: a square facet in a coordinate plane, of side s, analysed with a
\* fiber radius below s / 2 is not occluded and has four offset vertices.
C7_SquareFacet ==
    \A t \in {u \in DOMAIN props : u < throat_i} :
        (IsSquare(throat_vertices[t + 1]) /\ 2 * fiber_rad < MaxFactor(throat_vertices[t + 1]))
            => /\ Len(props[t].eroded_verts) = 4
               /\ props[t].area > 0

C7_Witness ==
    /\ pc = "done"
    /\ \E t \in DOMAIN throat_props :
          /\ IsSquare(throat_vertices[t + 1])
          /\ ~AlignedWithZ(ThroatNormal(throat_vertices[t + 1]))
          /\ 3 * fiber_rad > MaxFactor(throat_vertices[t + 1])
          /\ 2 * fiber_rad < MaxFactor(throat_vertices[t + 1])
          /\ Len(throat_props[t].eroded_verts) = 4

\* ------------------------------------------------------------------------
\* _throat_c2c and the conduit lengths set by __init__
\* ------------------------------------------------------------------------

\* a float: sqrt(root) + off, the marker nan, or the literal 1e-12
Float(root, off) == [kind |-> "num", root |-> root, off |-> off]

nan == [kind |-> "nan", root |-> 0, off |-> 0]

Tiny == [kind |-> "1e-12", root |-> 0, off |-> 0]

\* a test that looks at v1 alone
CheckNanFirst(v1, v2) == v1.nans = {}

\* line 285: ~np.any(np.isnan(v1 + v2), axis=1)
check_nan(v1, v2) == (v1.nans \cup v2.nans) = {}

\* lines 283-292: value[net.throats(self.name)].  A row of a centroid array
\* is its coordinates and the axes on which it is nan; nan spreads through
\* the subtraction t_cen - p_cen[p] and through np.linalg.norm(v) - fiber_rad
_throat_c2c(n, rad) ==
    LET RowSub(t, p) == [at |-> Sub3(t.at, p.at), nans |-> t.nans \cup p.nans]
        NormLess(v) == IF v.nans # {} THEN nan ELSE Float(Dot3(v.at, v.at), 0 - rad)
        value(i) ==
            LET v1 == RowSub(n.throat_centroid[i + 1],
                             n.pore_centroid[n.throat_conns[i + 1][1] + 1])
                v2 == RowSub(n.throat_centroid[i + 1],
                             n.pore_centroid[n.throat_conns[i + 1][2] + 1])
            IN  IF check_nan(v1, v2)
                THEN <<NormLess(v1), Float(0, rad * 2), NormLess(v2)>>
                ELSE <<nan, nan, nan>>
    IN  [k \in 1 .. Len(n.throats) |-> value(n.throats[k])]

\* line 197: np.sum(cen_lens, axis=1), the sum of the three roots and offsets
RowSum(r) ==
    IF \E k \in 1 .. 3 : r[k].kind = "nan"
    THEN [isnan |-> TRUE, roots |-> <<0, 0, 0>>, off |-> 0]
    ELSE [isnan |-> FALSE, roots |-> <<r[1].root, r[2].root, r[3].root>>,
          off |-> r[1].off + r[2].off + r[3].off]

\* a comparison that lets zero through: sqrt(root) + off < 0.0
Negative(v) == v.kind = "num" /\ v.off < 0 /\ v.root < v.off * v.off

\* line 198: cen_lens <= 0.0, false on nan
NonPositive(v) == v.kind = "num" /\ v.off <= 0 /\ v.root <= v.off * v.off

\* line 198: cen_lens[cen_lens <= 0.0] = 1e-12
ClampRow(r) == [k \in 1 .. 3 |-> IF NonPositive(r[k]) THEN Tiny ELSE r[k]]

\* the geometry before anything is constructed on it
GeometryIdle ==
    /\ pore_vertices = <<>>
    /\ throat_vertices = <<>>
    /\ resolution = 10
    /\ calls = 1
    /\ err = "none"
    /\ log = {}
    /\ bound = {}
    /\ shape = <<0, 0, 0>>
    /\ rad_vox = 0
    /\ chunk_len = 0
    /\ cgrid = <<0, 0, 0>>
    /\ cnum = 0
    /\ pore_space = Unset
    /\ fiber_space = Unset
    /\ dt = Unset
    /\ fiber_image = Unset
    /\ dt_image = Unset
    /\ Ps = <<>>
    /\ hull_i = 0
    /\ hull_image = Unset
    /\ pore_volume = Unset
    /\ throat_i = 0
    /\ props = Unset
    /\ throat_props = Unset
    /\ throat_centroid = Unset
    /\ pore_centroid = Unset
    /\ pore_indiameter = Unset
    /\ pore_incenter = Unset

\* three pores in a chain of two throats, of which the geometry owns some;
\* the rows of the centroid arrays are points, some with nan on an axis or
\* on all axes
InitC2C ==
    /\ LET CentroidRows ==
               {[at |-> <<0, 0, 0>>, nans |-> {}], [at |-> <<3, 4, 0>>, nans |-> {}],
                [at |-> <<20, 0, 5>>, nans |-> {}], [at |-> <<0, 0, 0>>, nans |-> {1, 2, 3}],
                [at |-> <<3, 4, 0>>, nans |-> {3}]}
       IN  \E p_cen \in [1 .. 3 -> CentroidRows], t_cen \in [1 .. 2 -> CentroidRows],
              own \in {<<0, 1>>, <<1>>} :
              network = [pore_centroid |-> p_cen, throat_centroid |-> t_cen,
                         throat_conns |-> <<(<<0, 1>>), (<<1, 2>>)>>, throats |-> own]
    /\ fiber_rad \in FiberRads
    /\ pc = "throat_c2c"
    /\ throat_c2c = Unset
    /\ conduit_lengths = Unset
    /\ target = Unset
    /\ iters = 0
    /\ D = Unset
    /\ D_is_stored = FALSE
    /\ D_den = 1
    /\ diameters = Unset
    /\ len_a = 0
    /\ outside = {}
    /\ plane_index = 0
    /\ dom = 0
    /\ GeometryIdle

\* lines 196-201
ThroatC2C ==
    /\ pc = "throat_c2c"
    /\ LET cen_lens == _throat_c2c(network, fiber_rad)
           clamped == [k \in DOMAIN cen_lens |-> ClampRow(cen_lens[k])]
       IN  /\ throat_c2c' = [k \in DOMAIN cen_lens |-> RowSum(cen_lens[k])]
           /\ conduit_lengths' = [k \in DOMAIN cen_lens |->
                                     [pore1 |-> clamped[k][1],
                                      throat |-> clamped[k][2],
                                      pore2 |-> clamped[k][3]]]
    /\ pc' = "constructed"
    /\ UNCHANGED <<calls, err, log, inputVars, throat_vertices, fiberVars, hullVars,
                   throatVars, indiamVars, len_a, outside, plane_index, dom, network, target, iters, D,
                   D_is_stored, D_den, diameters>>

SpecC2C == InitC2C /\ [][ThroatC2C]_vars

\* ------------------------------------------------------------------------
\* Properties of the conduit lengths
\* ------------------------------------------------------------------------

\* the centroids of local throat k: the throat's, pore 1's and pore 2's
ThroatCentroid(k) == network.throat_centroid[network.throats[k] + 1]

PoreCentroid(k, side) ==
    network.pore_centroid[network.throat_conns[network.throats[k] + 1][side] + 1]

CentroidsDefined(k) ==
    /\ ThroatCentroid(k).nans = {}
    /\ PoreCentroid(k, 1).nans = {}
    /\ PoreCentroid(k, 2).nans = {}

Separation2(k, side) == Dist2(ThroatCentroid(k).at, PoreCentroid(k, side).at)

\* C11 as stated: with all three centroids defined, the exposed lengths are
\* |throat centroid - pore 1 centroid| - fiber_rad, 2 * fiber_rad and
\* |throat centroid - pore 2 centroid| - fiber_rad.
C11_ConduitLengths ==
    pc = "constructed" =>
        \A k \in DOMAIN conduit_lengths :
            CentroidsDefined(k) =>
                /\ conduit_lengths[k].pore1 = Float(Separation2(k, 1), 0 - fiber_rad)
                /\ conduit_lengths[k].throat = Float(0, 2 * fiber_rad)
                /\ conduit_lengths[k].pore2 = Float(Separation2(k, 2), 0 - fiber_rad)

\* C11 as the code has it: with all three centroids defined, each exposed
\* length is the stated difference when that difference is above zero and
\* 1e-12 when it is zero or below; the throat part is 2 * fiber_rad.
C11_ConduitLengthsFloored ==
    LET PositiveOrTiny(d2) ==
            IF d2 > fiber_rad * fiber_rad THEN Float(d2, 0 - fiber_rad) ELSE Tiny
    IN  pc = "constructed" =>
            \A k \in DOMAIN conduit_lengths :
                CentroidsDefined(k) =>
                    /\ conduit_lengths[k].pore1 = PositiveOrTiny(Separation2(k, 1))
                    /\ conduit_lengths[k].throat = Float(0, 2 * fiber_rad)
                    /\ conduit_lengths[k].pore2 = PositiveOrTiny(Separation2(k, 2))

\* a throat whose pore 1 lies exactly fiber_rad away and whose pore 2 lies further
C11_Witness ==
    /\ pc = "constructed"
    /\ \E k \in DOMAIN conduit_lengths :
          /\ CentroidsDefined(k)
          /\ Separation2(k, 1) = fiber_rad * fiber_rad
          /\ Separation2(k, 2) > fiber_rad * fiber_rad

\* C12: a throat with an undefined throat centroid or an undefined adjacent
\* pore centroid has nan in all three exposed conduit lengths.
C12_UndefinedIsAllNan ==
    pc = "constructed" =>
        \A k \in DOMAIN conduit_lengths :
            ~CentroidsDefined(k) =>
                /\ conduit_lengths[k].pore1 = nan
                /\ conduit_lengths[k].throat = nan
                /\ conduit_lengths[k].pore2 = nan

\* a throat whose only undefined centroid is that of pore 2
C12_Witness ==
    /\ pc = "constructed"
    /\ \E k \in DOMAIN conduit_lengths :
          /\ ThroatCentroid(k).nans = {}
          /\ PoreCentroid(k, 1).nans = {}
          /\ PoreCentroid(k, 2).nans # {}

\* ------------------------------------------------------------------------
\* Properties of the pore indiameter and the pore volume
\* ------------------------------------------------------------------------

\* the voxels that carry the label of pore p
LabelledVoxels(p) == {v \in DOMAIN hull_image : hull_image[v] = p}

\* C13: right after _indiameter_from_fibers the indiameter of every pore is
\* 2 * resolution * the largest value of the distance image over the voxels
\* labelled with that pore (zero over no voxels), so no voxel with another
\* label or with no label enters a pore's value.
C13_IndiameterOverOwnVoxels ==
    (pc = "throat_props" /\ throat_i = 0) =>
        \A p \in Pores :
            LET d == pore_indiameter[p]
                S == LabelledVoxels(p)
            IN  /\ d.times = 2 * resolution
                /\ IF \A v \in S : DtIsZero(dt_image[v])
                   THEN DtIsZero(d)
                   ELSE \E v \in S :
                           /\ d.dsq = dt_image[v].dsq /\ d.sub = dt_image[v].sub
                           /\ \A u \in S : DtLeq(dt_image[u], dt_image[v])

\* the voxels that are pore-phase in the fiber image and labelled p
PorePhaseVoxels(p) == {v \in LabelledVoxels(p) : fiber_image[v] = 1}

\* C14: the volume of every pore is resolution^3 times the number of voxels
\* that are pore-phase in the fiber image and carry the pore's label; voxels
\* without a label and fiber-phase voxels are counted for no pore.
C14_VolumeCountsOwnPoreVoxels ==
    pc \in {"indiameter", "throat_props", "done"} =>
        \A p \in Pores :
            pore_volume[p] = resolution * resolution * resolution
                                * Cardinality(PorePhaseVoxels(p))

\* a pass that left pore-phase voxels without a label and gave a pore both
\* fiber-phase and pore-phase voxels
C14_Witness ==
    /\ pc \in {"indiameter", "throat_props", "done"}
    /\ \E v \in DOMAIN hull_image : hull_image[v] = -1 /\ fiber_image[v] = 1
    /\ \E p \in Pores :
          /\ PorePhaseVoxels(p) # {}
          /\ \E v \in LabelledVoxels(p) : fiber_image[v] = 0

\* ------------------------------------------------------------------------
\* largest_sphere (models/geometry/pore_size/_funcs.py)
\* ------------------------------------------------------------------------

\* the largest value of the argument iters that is tried
MaxIters == 3

\* networks whose connected pores lie at whole distances: a chain on a line,
\* and a 3-4-5 triangle beside a pore without throats
SphereNetworks ==
    {[coords |-> <<(<<0, 0, 0>>), (<<4, 0, 0>>), (<<10, 0, 0>>)>>,
      conns |-> <<(<<0, 1>>), (<<1, 2>>)>>],
     [coords |-> <<(<<0, 0, 0>>), (<<3, 0, 0>>), (<<0, 4, 0>>), (<<20, 0, 0>>)>>,
      conns |-> <<(<<0, 1>>), (<<0, 2>>), (<<1, 2>>)>>]}

\* network[fixed_diameter], an array of diameters with nan where unassigned,
\* or the KeyError of a network without the array
FixedChoices(Np) ==
    {[present |-> FALSE, values |-> <<>>]}
        \cup {[present |-> TRUE, values |-> f] :
                 f \in [1 .. Np -> {[isnan |-> TRUE, val |-> 0], [isnan |-> FALSE, val |-> 2],
                                    [isnan |-> FALSE, val |-> 6]}]}

InitSphere ==
    /\ \E n \in SphereNetworks :
          \E f \in FixedChoices(Len(n.coords)),
             own \in {[k \in 1 .. Len(n.coords) |-> k - 1], <<1>>},
             i \in -1 .. MaxIters :
                /\ target = [coords |-> n.coords, conns |-> n.conns, pores |-> own,
                             fixed_diameter |-> f, iters |-> i]
                /\ iters = i
    /\ D = Unset
    /\ D_is_stored = FALSE
    /\ D_den = 1
    /\ diameters = Unset
    /\ len_a = 0
    /\ outside = {}
    /\ plane_index = 0
    /\ dom = 0
    /\ pc = "largest_sphere"
    /\ fiber_rad = 5
    /\ network = Unset
    /\ throat_c2c = Unset
    /\ conduit_lengths = Unset
    /\ GeometryIdle

\* line 104: the pore pair of throat t
P12(t) == target.conns[t]

\* line 107: the length of throat t, the root of a whole square
L(t) ==
    LET d2 == Dist2(target.coords[P12(t)[1] + 1], target.coords[P12(t)[2] + 1])
    IN  CHOOSE r \in 0 .. d2 : r * r = d2

SphereThroats == DOMAIN target.conns

SpherePores == 0 .. Len(target.coords) - 1

Finite(n) == [inf |-> FALSE, num |-> n]

Inf == [inf |-> TRUE, num |-> 0]

\* np.minimum.at(X, P12[:, 0], V); np.minimum.at(X, P12[:, 1], V) on an
\* array X of inf: per pore the largest of V over its throats
MaximumAt(V, p) ==
    LET ts == {t \in SphereThroats : P12(t)[1] = p \/ P12(t)[2] = p}
    IN  IF ts = {} THEN Inf ELSE Finite(SetMax({V[t] : t \in ts}))

\* np.minimum.at(X, P12[:, 0], V); np.minimum.at(X, P12[:, 1], V) on an
\* array X of inf: per pore the smallest of V over its throats
MinimumAt(V, p) ==
    LET ts == {t \in SphereThroats : P12(t)[1] = p \/ P12(t)[2] = p}
    IN  IF ts = {} THEN Inf ELSE Finite(SetMin({V[t] : t \in ts}))

\* lines 108-118: the starting diameters
StartingD ==
    IF target.fixed_diameter.present
    THEN [p \in SpherePores |->
             IF target.fixed_diameter.values[p + 1].isnan THEN Finite(0)
             ELSE Finite(target.fixed_diameter.values[p + 1].val)]
    ELSE [p \in SpherePores |-> MinimumAt([t \in SphereThroats |-> L(t)], p)]

\* lines 103-118
LargestSphereStart ==
    /\ pc = "largest_sphere"
    /\ D' = StartingD
    \* line 110: network[fixed_diameter] hands out the array stored under the
    \* key on the network itself, and an array put together for the call when
    \* the values are kept elsewhere in the project; line 115 makes a new one
    /\ D_is_stored' \in IF target.fixed_diameter.present THEN BOOLEAN ELSE {FALSE}
    /\ log' = IF target.fixed_diameter.present THEN log
              ELSE log \cup {"info: pore sizes not present"}
    /\ pc' = "grow"
    /\ UNCHANGED <<calls, err, inputVars, throat_vertices, fiberVars, hullVars, throatVars,
                   indiamVars, len_a, outside, plane_index, dom, network, throat_c2c, conduit_lengths,
                   target, iters, D_den, diameters>>

\* line 121: L - np.sum(D[P12], axis=1) / 2, as a numerator over 2 * D_den.
\* A pore at the end of a throat never holds inf.
Lt(t) == 2 * D_den * L(t) - (D[P12(t)[1]].num + D[P12(t)[2]].num)

\* lines 122-124
Dadd(p) == MinimumAt([t \in SphereThroats |-> Lt(t)], p)

\* line 125: D += Dadd, over 2 * D_den
Grown(p) ==
    IF D[p].inf \/ Dadd(p).inf THEN Inf ELSE Finite(2 * D[p].num + Dadd(p).num)

\* lines 119-125: one pass of the while loop
LargestSphereGrow ==
    /\ pc = "grow"
    /\ iters >= 0
    /\ iters' = iters - 1
    /\ D' = [p \in SpherePores |-> Grown(p)]
    /\ D_den' = 2 * D_den
    /\ UNCHANGED <<pc, calls, err, log, inputVars, throat_vertices, fiberVars, hullVars,
                   throatVars, indiamVars, len_a, outside, plane_index, dom, network,
                   throat_c2c, conduit_lengths, target, D_is_stored, diameters>>

\* lines 126-129
LargestSphereReturn ==
    /\ pc = "grow"
    /\ iters < 0
    /\ log' = IF \E p \in SpherePores : ~D[p].inf /\ D[p].num < 0
              THEN log \cup {"info: negative pore diameters found"}
              ELSE log
    /\ diameters' = [k \in DOMAIN target.pores |-> D[target.pores[k]]]
    /\ pc' = "returned"
    /\ UNCHANGED <<calls, err, inputVars, throat_vertices, fiberVars, hullVars, throatVars,
                   indiamVars, len_a, outside, plane_index, dom, network,
                   throat_c2c, conduit_lengths, target, iters, D, D_is_stored, D_den>>

NextSphere ==
    \/ LargestSphereStart
    \/ LargestSphereGrow
    \/ LargestSphereReturn

SpecSphere == InitSphere /\ [][NextSphere]_vars

\* ------------------------------------------------------------------------
\* Properties of largest_sphere
\* ------------------------------------------------------------------------

\* no two connected pores overlap: D_i / 2 + D_j / 2 <= L, over the
\* denominator den_
Disjoint(D_, den_) ==
    \A t \in SphereThroats :
        D_[P12(t)[1]].num + D_[P12(t)[2]].num <= 2 * den_ * L(t)

\* the passes of the while loop made so far
Growths == target.iters - iters

\* C15: when the starting diameters do not overlap, then after every pass of
\* the loop and in the returned array D_i / 2 + D_j / 2 is at most the
\* distance of the pores i and j of every throat.
C15_NeverOverlaps ==
    (pc \in {"grow", "returned"} /\ Disjoint(StartingD, 1)) => Disjoint(D, D_den)

\* fixed diameters that do not overlap, two passes made, and a pore that grew
C15_Witness ==
    /\ pc \in {"grow", "returned"}
    /\ target.fixed_diameter.present
    /\ Disjoint(StartingD, 1)
    /\ Growths >= 2
    /\ \E p \in SpherePores : ~D[p].inf /\ D[p].num > D_den * StartingD[p].num

\* C16: for an argument iters >= 0 the function returns after at most iters
\* passes of the growth loop.
C16_AtMostItersGrowths ==
    (pc = "returned" /\ target.iters >= 0) => Growths <= target.iters

\* ------------------------------------------------------------------------
\* The chunk loop of _get_fiber_image on a domain longer than the chunk edge
\* ------------------------------------------------------------------------

NextChunked ==
    \/ GetFiberImageSetup
    \/ SeedFibers
    \/ ProcessChunk
    \/ FinishFiberImage

SpecChunked == InitFrom(LongNetworks) /\ [][NextChunked]_vars

\* C17: in chunked processing a chunk writes only its core and never a voxel
\* of its halo, so the regions written by different chunks are disjoint.
\* The core of chunk c is, per axis, chunk_len voxels from c * chunk_len on,
\* without the 5 * fiber_rad voxels that line 686 adds to the window.
\* fiber_space starts as zeros, so a voxel that holds 1 has been written.
C17_ChunkWritesCoreOnly ==
    (FellBack /\ pc \in {"chunk", "aborted"} /\ "fiber_space" \in bound) =>
        LET begun == 1 .. (IF cnum > cgrid[1] * cgrid[2] * cgrid[3] THEN cnum - 1 ELSE cnum)
            InCore(v, c) ==
                \A a \in 1 .. 3 : ChunkMin(c[a]) <= v[a] /\ v[a] < (c[a] + 1) * chunk_len
        IN  \A v \in DOMAIN fiber_space :
                fiber_space[v] = 1 => \E n \in begun : InCore(v, ChunkIndex(n))

\* ------------------------------------------------------------------------
\* Properties of inhull
\* ------------------------------------------------------------------------

\* C18: right after inhull has voxelized a pore, a voxel carries the pore's
\* label iff the voxel's own position satisfies every facet inequality of the
\* pore's hull with inward normals.  The image starts at the least vertex
\* coordinates (lines 619-624) and a voxel is resolution long.
C18_LabelledIffInsideHull ==
    (pc = "inhull" /\ hull_i >= 1) =>
        LET pore == Ps[hull_i]
            Pl == HullPlanes(pore_vertices[pore + 1])
            x(v) == <<VertexMin(1) + resolution * v[1], VertexMin(2) + resolution * v[2],
                      VertexMin(3) + resolution * v[3]>>
        IN  \A v \in DOMAIN hull_image :
                hull_image[v] = pore <=> \A pl \in Pl : Dot3(pl.n, Sub3(x(v), pl.a)) >= 0

\* ------------------------------------------------------------------------
\* Properties of the published fiber image and distance image
\* ------------------------------------------------------------------------

\* the squared distance of v to the nearest seed voxel
SeedDist2(v, seeds) == SetMin({Dist2(v, u) : u \in seeds})

\* C19: with r the rounded (fiber_rad - resolution / 2) / resolution, a voxel
\* is fiber-phase (0) iff its distance to the nearest seed voxel is <= r and
\* pore-phase (1) iff it is > r, and the distance image holds
\* max(distance - r, 0).
C19_PhaseAndDistanceByRadius ==
    pc = "hull_image" =>
        LET seeds == MarkedVoxels(SeedIndices, shape)
            r == rad_vox
        IN  /\ 2 * ((2 * fiber_rad - resolution) - r * 2 * resolution) <= 2 * resolution
            /\ 2 * (r * 2 * resolution - (2 * fiber_rad - resolution)) <= 2 * resolution
            /\ seeds # {} =>
                  \A v \in DOMAIN fiber_image :
                      LET d2 == SeedDist2(v, seeds)
                      IN  /\ fiber_image[v] = 0 <=> d2 <= r * r
                          /\ fiber_image[v] = 1 <=> d2 > r * r
                          /\ IF d2 <= r * r
                             THEN DtIsZero(dt_image[v])
                             ELSE dt_image[v] = [dsq |-> d2, sub |-> r]

\* a pass with a radius of one voxel or more that has fiber voxels off the
\* seeds, nearer than the radius and right at the radius, and pore voxels
C19_Witness ==
    /\ pc = "hull_image"
    /\ rad_vox >= 1
    /\ LET seeds == MarkedVoxels(SeedIndices, shape)
       IN  /\ seeds # {}
           /\ \E v \in DOMAIN fiber_image : SeedDist2(v, seeds) = rad_vox * rad_vox
           /\ \E v \in DOMAIN fiber_image : SeedDist2(v, seeds) < rad_vox * rad_vox
           /\ \E v \in DOMAIN fiber_image : SeedDist2(v, seeds) > rad_vox * rad_vox

\* ------------------------------------------------------------------------
\* Properties of the occluded result of _throat_props
\* ------------------------------------------------------------------------

\* the occluded result: no area, no perimeter, no indiameter, no offset vertices
IsZeroResult(p) ==
    /\ p.area = 0
    /\ p.perimeter = [unit |-> 0, diag |-> 0, mixed |-> 0]
    /\ p.inradius = 0
    /\ p.eroded_verts = <<>>

\* the set pixels of eroded (lines 380-382) for a facet and the fiber radius
\* offset
Survivors(face, offset) ==
    LET n == ThroatNormal(face)
        g == FacetFrame(RotatedFacet(face, n), n)
        mf == SetMax({Span(g.pts, 1), Span(g.pts, 2)})
        shp == ImageShape(g.pts, mf)
        frame == Pixels(shp[1] + 2, shp[2] + 2)
    IN  Erode(ConvexHullImage(PaddedImage(IntPoints(g.pts, mf)), shp[1] + 2, shp[2] + 2),
              frame, offset, mf)

\* C20: the analysis gives the occluded zero result whenever the scaled
\* radius r = f * offset is above res / 2 or fewer than 3 pixels survive the
\* erosion, and so for every square facet of side s with fiber_rad >= s / 2.
C20_OccludedIsZero ==
    (pc = "throat_props" /\ throat_i >= 1) =>
        LET face == throat_vertices[throat_i]
            got == props[throat_i - 1]
            mf == MaxFactor(face)
        IN  /\ 2 * fiber_rad > mf => IsZeroResult(got)
            /\ (2 * fiber_rad <= mf /\ Cardinality(Survivors(face, fiber_rad)) < 3)
                  => IsZeroResult(got)
            /\ (IsSquare(face) /\ 2 * fiber_rad >= mf) => IsZeroResult(got)

\* a square facet analysed with a fiber radius of exactly half its side: the
\* radius test lets it through, and the erosion leaves fewer than 3 pixels
C20_Witness ==
    /\ pc = "throat_props" /\ throat_i >= 1
    /\ IsSquare(throat_vertices[throat_i])
    /\ 2 * fiber_rad = MaxFactor(throat_vertices[throat_i])
    /\ Cardinality(Survivors(throat_vertices[throat_i], fiber_rad)) \in 1 .. 2
    /\ IsZeroResult(props[throat_i - 1])

\* ------------------------------------------------------------------------
\* Properties of the region analysis of _throat_props
\* ------------------------------------------------------------------------

\* the pixels of S joined to the pixels seen through neighbours in S, the
\* eight pixels around a pixel being its neighbours (skimage labels regions
\* with full connectivity)
RECURSIVE Joined(_, _)
Joined(S, seen) ==
    LET more == {q \in S : \E p \in seen :
                    /\ q[1] - p[1] \in {-1, 0, 1}
                    /\ q[2] - p[2] \in {-1, 0, 1}}
    IN  IF more \subseteq seen THEN seen ELSE Joined(S, seen \cup more)

C22_FacetAnalysisIndependent ==
    (pc \in {"throat_props", "done"} /\ throat_i >= 1) =>
        LET given == CHOOSE n \in Networks : n.pore_vertices = pore_vertices
        IN  /\ throat_vertices = given.throat_vertices
            /\ \A t \in 0 .. throat_i - 1 :
                  LET alone == ThroatAnalysis(given.throat_vertices[t + 1], fiber_rad)
                  IN  /\ props[t].centroid = alone.centroid
                      /\ props[t].incenter = alone.incenter
                      /\ props[t].eroded_verts = alone.eroded_verts


\* ------------------------------------------------------------------------
\* Properties of the construction as a whole
\* ------------------------------------------------------------------------

\* C23: during construction (the first call of in_hull_volume and what
\* follows it) the stored vertex sets are never modified and an attribute
\* that has been assigned is never assigned again.
C23_WrittenOnce ==
    [][calls' = 1 =>
          /\ pore_vertices' = pore_vertices
          /\ throat_vertices' = throat_vertices
          /\ pore_volume # Unset => pore_volume' = pore_volume
          /\ pore_centroid # Unset => pore_centroid' = pore_centroid
          /\ pore_indiameter # Unset => pore_indiameter' = pore_indiameter
          /\ pore_incenter # Unset => pore_incenter' = pore_incenter
          /\ throat_props # Unset => throat_props' = throat_props
          \* an assignment of the same points, as values num / den, could
          \* not be told from none
          /\ throat_centroid # Unset =>
                \A t \in DOMAIN throat_centroid : \A a \in 1 .. 3 :
                    throat_centroid'[t].num[a] * throat_centroid[t].den
                        = throat_centroid[t].num[a] * throat_centroid'[t].den]_vars


\* C24: for every throat that is not occluded the incenter is the position of
\* a largest value of the distance transform of the eroded mask, taken in the
\* raster frame of the region (the cropped image, in which the centroid and
\* the offset vertices are measured) and mapped back like them; so the
\* incenter is a pixel of the surviving region.
C24_IncenterInRegionFrame ==
    (pc = "throat_props" /\ throat_i >= 1) =>
        LET face == throat_vertices[throat_i]
            n == ThroatNormal(face)
            g == FacetFrame(RotatedFacet(face, n), n)
            mf == MaxFactor(face)
            shp == ImageShape(g.pts, mf)
            frame == Pixels(shp[1] + 2, shp[2] + 2)
            S == Survivors(face, fiber_rad)
            top == DtMax(S, frame)
        IN  props[throat_i - 1].area > 0 =>
                \E p \in S :
                    /\ Edt2(S, frame, p) = top
                    /\ props[throat_i - 1].incenter
                           = Lift(g, mf, <<p[1] - 1, p[2] - 1>>, 1)


\* ------------------------------------------------------------------------
\* Properties of the seeding of the fibers
\* ------------------------------------------------------------------------

\* C25: the sample points of _bresenham hold, for every edge of every facet
\* polygon and whatever the direction of the edge, the point at every step
\* position k / (increments - 1) from the start vertex to the end vertex.
C25_EveryStepSampled ==
    pc = "seed" =>
        LET pts == bresenham(throat_vertices, resolution)
        IN  \A t \in DOMAIN throat_vertices :
                LET face == throat_vertices[t]
                    hv == ConvexHullVertices(Project2D(face, KeptAxes(face)))
                IN  \A i \in 1 .. Len(hv) :
                        LET a == face[hv[IF i = 1 THEN Len(hv) ELSE i - 1]]
                            b == face[hv[i]]
                            n == IncrementsFrom(Dist2(a, b), resolution, 0)
                            d == IF n > 1 THEN n - 1 ELSE 1
                        IN  \A k \in 0 .. n - 1 :
                                \E p \in pts : \A x \in 1 .. 3 :
                                    p.num[x] * d = (a[x] * d + (b[x] - a[x]) * k) * p.den


\* ------------------------------------------------------------------------
\* Properties of the fill pass of in_hull_volume
\* ------------------------------------------------------------------------

\* C26: the fill pass leaves every labeled cell unchanged and gives every
\* unlabeled cell with a labeled cell within 2 voxels (on every axis) the
\* largest label among those cells.
C26_FillWithinTwoVoxels ==
    [][(pc = "inhull" /\ pc' \in {"centroids", "done"}) =>
          \A v \in DOMAIN hull_image :
              IF hull_image[v] # -1 THEN hull_image'[v] = hull_image[v]
              ELSE LET near == {hull_image[w] :
                                   w \in {u \in DOMAIN hull_image :
                                             \A a \in 1 .. 3 : u[a] - v[a] \in -2 .. 2}} \ {-1}
                   IN  near # {} => hull_image'[v] = SetMax(near)]_vars


\* ------------------------------------------------------------------------
\* Properties of the published fiber and distance images
\* ------------------------------------------------------------------------

\* C27: once _get_fiber_image has published its images, every entry
\* sqrt(dsq) - sub of the distance image is >= 0, a voxel is pore-phase (1)
\* iff its entry is > 0 and fiber-phase (0) iff its entry is 0.  A pass that
\* fell back to chunking is held to the same.
C27_DistanceMatchesPhase ==
    dt_image # Unset =>
        /\ DOMAIN dt_image = DOMAIN fiber_image
        /\ \A v \in DOMAIN dt_image :
              LET x == dt_image[v]
              IN  /\ x.sub <= 0 \/ x.dsq >= x.sub * x.sub
                  /\ fiber_image[v] = 1 <=> (x.sub < 0 \/ x.dsq > x.sub * x.sub)
                  /\ fiber_image[v] = 0 <=> DtIsZero(x)

\* a finished pass with a radius of one voxel or more in which some voxel
\* lies nearer to the seeds than the radius, so that its entry was below
\* zero before line 710, and some voxel is pore-phase
C27_Witness ==
    /\ pc = "hull_image"
    /\ rad_vox >= 1
    /\ \E v \in DOMAIN dt : dt[v].dsq < rad_vox * rad_vox /\ dt_image[v] = Zero
    /\ \E v \in DOMAIN dt_image : fiber_image[v] = 1 /\ dt_image[v].dsq > rad_vox * rad_vox


\* ------------------------------------------------------------------------
\* inhull: the counter of one cell of dom (lines 490, 513-520)
\* ------------------------------------------------------------------------

\* how many multiples of the counter width the hull sizes reach
MaxWraps == 1

\* one cell of dom for a hull of len(a) simplices; the cell passes every
\* plane test, or all but the first, or all but the last
InitDom ==
    /\ len_a \in (1 .. 3) \cup {k * CounterModulus + d : k \in 1 .. MaxWraps, d \in {-1, 0, 1}}
    /\ outside \in {{}, {0}, {len_a - 1}}
    /\ plane_index = 0
    \* line 490: np.zeros(..., dtype=np.uint8)
    /\ dom = 0
    /\ pc = "inhull_planes"
    /\ fiber_rad = 5
    /\ network = Unset
    /\ throat_c2c = Unset
    /\ conduit_lengths = Unset
    /\ target = Unset
    /\ iters = 0
    /\ D = Unset
    /\ D_is_stored = FALSE
    /\ D_den = 1
    /\ diameters = Unset
    /\ GeometryIdle

\* lines 513-518: one pass of the loop over the planes; += 1 on uint8
InhullPlane ==
    /\ pc = "inhull_planes"
    /\ plane_index < len_a
    /\ dom' = IF plane_index \in outside THEN dom ELSE (dom + 1) % CounterModulus
    /\ plane_index' = plane_index + 1
    /\ UNCHANGED <<pc, calls, err, log, inputVars, throat_vertices, fiberVars, hullVars,
                   throatVars, indiamVars, network, throat_c2c, conduit_lengths, target,
                   iters, D, D_is_stored, D_den, diameters, len_a, outside>>

\* lines 519-520: dom[dom < len(a)] = 0, then dom[dom == len(a)] = 1; the
\* comparisons are made on integers wide enough for len(a)
InhullMark ==
    /\ pc = "inhull_planes"
    /\ plane_index = len_a
    /\ dom' = LET cleared == IF dom < len_a THEN 0 ELSE dom
              IN  IF cleared = len_a THEN 1 ELSE cleared
    /\ pc' = "inhull_marked"
    /\ UNCHANGED <<calls, err, log, inputVars, throat_vertices, fiberVars, hullVars,
                   throatVars, indiamVars, network, throat_c2c, conduit_lengths, target,
                   iters, D, D_is_stored, D_den, diameters, len_a, outside, plane_index>>

SpecDom == InitDom /\ [][InhullPlane \/ InhullMark]_vars

\* C28: whatever the number of simplices, a cell is marked inside (nonzero,
\* line 523 reads dom as booleans) iff it passed every plane test.
C28_MarkedIffAllTestsPass ==
    pc = "inhull_marked" => (dom # 0 <=> outside = {})


\* ------------------------------------------------------------------------
\* Properties of the results of _throat_props taken together
\* ------------------------------------------------------------------------

\* C29: for the throat just analysed, area > 0 iff there are offset vertices
\* iff the inradius (half the indiameter) is > 0 iff the equivalent diameter
\* is > 0; and a throat occluded on any path (radius above res / 2, fewer
\* than 3 surviving pixels, no region, fewer than 3 offset vertices) has the
\* zero result, with centroid and incenter at the origin.
C29_OutputsConsistent ==
    (pc = "throat_props" /\ throat_i >= 1) =>
        LET face == throat_vertices[throat_i]
            p == props[throat_i - 1]
        IN  /\ p.area > 0 <=> p.eroded_verts # <<>>
            /\ p.area > 0 <=> p.inradius > 0
            /\ p.area > 0 <=> p.equiv_diameter > 0
            /\ (\/ ~RadiusFits(fiber_rad, MaxFactor(face))
                \/ Cardinality(Survivors(face, fiber_rad)) < 3
                \/ Len(p.eroded_verts) < 3)
                  => /\ IsZeroResult(p)
                     /\ p.equiv_diameter = 0
                     /\ p.centroid.num = <<0, 0, 0>>
                     /\ p.incenter.num = <<0, 0, 0>>

\* a throat with 3 or more surviving pixels that is occluded all the same:
\* fewer than 3 of them are nearest to a facet vertex
C29_Witness ==
    /\ pc = "throat_props" /\ throat_i >= 1
    /\ RadiusFits(fiber_rad, MaxFactor(throat_vertices[throat_i]))
    /\ Cardinality(Survivors(throat_vertices[throat_i], fiber_rad)) >= 3
    /\ props[throat_i - 1].area = 0
    /\ props[throat_i - 1].eroded_verts = <<>>


\* ------------------------------------------------------------------------
\* Properties of largest_sphere on the arrays of the network
\* ------------------------------------------------------------------------

\* C30: when largest_sphere has returned, the array the network stores under
\* fixed_diameter holds the values it held at the call: nan where it was
\* nan, the same diameter elsewhere.
C30_FixedDiameterUnchanged ==
    (pc = "returned" /\ target.fixed_diameter.present /\ D_is_stored) =>
        \A p \in SpherePores :
            /\ ~target.fixed_diameter.values[p + 1].isnan
            /\ ~D[p].inf
            /\ D[p].num = target.fixed_diameter.values[p + 1].val * D_den

====
